---- MODULE Spec2Model ----
(***************************************************************************)
(* Model of src/python/boardgames/__init__.py: the Game record parser with *)
(* its poll aggregation (poll_num_players, poll_threshold), the player     *)
(* count filter good_for_players, and BoardGameCollection.fetch.           *)
(*                                                                         *)
(* Python values are modelled as follows.                                  *)
(*   - an optional value is a sequence of length at most one: None is <<>> *)
(*     and a present value x is <<x>>;                                     *)
(*   - a string the code inspects (numplayers, minplayers, maxplayers, a   *)
(*     poll option value) is a sequence of one-character strings, so that  *)
(*     int(), endswith('+') and [:-1] are computed, not assumed;           *)
(*   - a string the code only compares or uses as a key (names, types,     *)
(*     vote labels) is a TLA+ string;                                      *)
(*   - int(numvotes) is applied to decimal text upstream always sends, and *)
(*     numvotes is modelled by its number;                                 *)
(*   - the threshold is a rational num/den and every comparison with it is *)
(*     cross-multiplied; for the dyadic thresholds and the small counts    *)
(*     used here Python's float arithmetic gives the same answers.         *)
(***************************************************************************)
EXTENDS Integers, Sequences, FiniteSets, TLC

VARIABLES
    \* ---- BoardGameCollection ----
    pc,                  \* "idle" | "collection" | "things": where fetch stands
    outcome,             \* "none" | "ok" | "error": how the last fetch call ended
    status,              \* r.status_code of the last collection response (0: none yet)
    collection_requests, \* collection GETs issued by the running fetch (saturating)
    thing_requests,      \* thing GETs issued by the running fetch
    objs,                \* the Game objects built by the last assembly, by reference
    _games,              \* self._games: name -> reference into objs
    _all_games,          \* self._all_games: sequence of references into objs
    prior,               \* what objs/_games/_all_games held when fetch was last called
    \* ---- one Game and its filter ----
    item,                \* the <item> fragment handed to Game(item, threshold)
    threshold,           \* the threshold argument, [num, den]
    game,                \* None, or <<the Game built from item>>
    parse_error,         \* None, or <<the exception Game(item) raised>>
    player_count,        \* the argument of the last good_for_players call
    result               \* "NotCalled" | "True" | "False" | "ValueError"

vars == <<pc, outcome, status, collection_requests, thing_requests, objs, _games,
          _all_games, prior, item, threshold, game, parse_error, player_count, result>>

fetch_vars == <<pc, outcome, status, collection_requests, thing_requests, objs,
                _games, _all_games, prior>>

game_vars == <<item, threshold, game, parse_error, player_count, result>>

----------------------------------------------------------------------------
(* Bounds of the model *)

MaxItems == 2
MaxAttempts == 3
MaxCandidates == 2
MaxVotes == 2
MaxPolls == 2
MaxEntries == 3
MaxNumVotes == 2
MaxPlayerCount == 3

----------------------------------------------------------------------------
(* Python helpers *)

None == <<>>

Some(x) == <<x>>

\* x or y, for an optional x and a string y
OrElse(x, y) == IF x = None THEN y ELSE x[1]

Min(a, b) == IF a <= b THEN a ELSE b

Range(s) == {s[i] : i \in 1..Len(s)}

EmptyDict == [k \in {} |-> 0]

DigitChars == <<"0", "1", "2", "3", "4", "5", "6", "7", "8", "9">>

IsDigit(c) == \E d \in 1..10 : DigitChars[d] = c

DigitValue(c) == (CHOOSE d \in 1..10 : DigitChars[d] = c) - 1

\* int(s) raises ValueError unless s is a non-empty run of decimal digits
IntRaises(s) == s = <<>> \/ \E i \in 1..Len(s) : ~IsDigit(s[i])

RECURSIVE IntOf(_)
IntOf(s) ==
    IF s = <<>> THEN 0
    ELSE 10 * IntOf(SubSeq(s, 1, Len(s) - 1)) + DigitValue(s[Len(s)])

\* s.endswith('+')
EndsWithPlus(s) == s # <<>> /\ s[Len(s)] = "+"

\* s[:-1]
DropLast(s) == SubSeq(s, 1, Len(s) - 1)

\* str(n) for 0 <= n <= 99
StrOf(n) ==
    IF n < 10 THEN <<DigitChars[n + 1]>>
    ELSE <<DigitChars[(n \div 10) + 1], DigitChars[(n % 10) + 1]>>

----------------------------------------------------------------------------
(* Game.__init__: the poll aggregation *)

\* threshold=0.5
DefaultThreshold == [num |-> 1, den |-> 2]

\* {sub_item['value']: int(sub_item['numvotes']) for sub_item in result.find_all('result')}
VotesOf(entries) ==
    [v \in {entries[i].value : i \in 1..Len(entries)} |->
        LET last == CHOOSE i \in 1..Len(entries) :
                        /\ entries[i].value = v
                        /\ \A j \in (i + 1)..Len(entries) : entries[j].value # v
        IN  entries[last].numvotes]

VoteLabels == {"Best", "Recommended", "Not Recommended"}

\* The state of the loop over one poll's <results> groups, before the first group
ScanStart ==
    [best_split |-> [num |-> 0, den |-> 1], best_value |-> None,
     recommended |-> <<>>, raised |-> FALSE]

\* Faulty variant of ScanStep: the best ratio is compared with >=, the last candidate wins ties
ScanStep_TieLast(acc, group, t) ==
    LET votes == VotesOf(group.result) IN
    IF acc.raised \/ votes = EmptyDict THEN acc
    ELSE IF ~(VoteLabels \subseteq DOMAIN votes) THEN [acc EXCEPT !.raised = TRUE]
    ELSE
        LET best_votes == votes["Best"]
            recommended_votes == votes["Recommended"]
            no_votes == votes["Not Recommended"]
            total_votes == best_votes + recommended_votes + no_votes
            yes_votes == best_votes + recommended_votes
            better == best_votes * acc.best_split.den >= acc.best_split.num * total_votes
        IN  IF total_votes = 0 THEN acc
            ELSE [best_split  |-> IF better THEN [num |-> best_votes, den |-> total_votes]
                                  ELSE acc.best_split,
                  best_value  |-> IF better THEN Some(group.numplayers) ELSE acc.best_value,
                  recommended |-> IF yes_votes * t.den > t.num * total_votes
                                  THEN Append(acc.recommended, group.numplayers)
                                  ELSE acc.recommended,
                  raised      |-> FALSE]

\* One iteration of the loop over poll.find_all('results')
ScanStep(acc, group, t) ==
    LET votes == VotesOf(group.result) IN
    IF acc.raised \/ votes = EmptyDict THEN acc
    ELSE IF ~(VoteLabels \subseteq DOMAIN votes) THEN [acc EXCEPT !.raised = TRUE]
    ELSE
        LET best_votes == votes["Best"]
            recommended_votes == votes["Recommended"]
            no_votes == votes["Not Recommended"]
            total_votes == best_votes + recommended_votes + no_votes
            yes_votes == best_votes + recommended_votes
            better == best_votes * acc.best_split.den > acc.best_split.num * total_votes
        IN  IF total_votes = 0 THEN acc
            ELSE [best_split  |-> IF better THEN [num |-> best_votes, den |-> total_votes]
                                  ELSE acc.best_split,
                  best_value  |-> IF better THEN Some(group.numplayers) ELSE acc.best_value,
                  recommended |-> IF yes_votes * t.den > t.num * total_votes
                                  THEN Append(acc.recommended, group.numplayers)
                                  ELSE acc.recommended,
                  raised      |-> FALSE]

RECURSIVE ScanResults(_, _, _)
ScanResults(results, n, t) ==
    IF n = 0 THEN ScanStart
    ELSE ScanStep(ScanResults(results, n - 1, t), results[n], t)

NoPlayers == [raised |-> FALSE, min |-> None, max |-> None, best |-> None]

\* poll_num_players(), from the i-th <poll> of the item on
RECURSIVE PollNumPlayersFrom(_, _, _)
PollNumPlayersFrom(polls, i, t) ==
    IF i > Len(polls) THEN NoPlayers
    ELSE IF polls[i].name = "suggested_numplayers" /\ polls[i].results # <<>> THEN
        LET scan == ScanResults(polls[i].results, Len(polls[i].results), t) IN
        IF scan.raised THEN [NoPlayers EXCEPT !.raised = TRUE]
        ELSE IF scan.recommended # <<>> THEN
            [raised |-> FALSE,
             min    |-> Some(scan.recommended[1]),
             max    |-> Some(scan.recommended[Len(scan.recommended)]),
             best   |-> scan.best_value]
        ELSE PollNumPlayersFrom(polls, i + 1, t)
    ELSE PollNumPlayersFrom(polls, i + 1, t)

poll_num_players(it, t) == PollNumPlayersFrom(it.polls, 1, t)

RECURSIVE SumVotes(_, _)
SumVotes(results, n) ==
    IF n = 0 THEN 0 ELSE SumVotes(results, n - 1) + results[n].numvotes

\* Faulty variant of CumulativeFrom: the running sum must exceed total_votes * threshold
RECURSIVE CumulativeFrom_Strict(_, _, _, _, _)
CumulativeFrom_Strict(results, k, cumulative, total_votes, t) ==
    IF k > Len(results) THEN None
    ELSE
        LET c == cumulative + results[k].numvotes IN
        IF c * t.den > total_votes * t.num THEN Some(results[k].value)
        ELSE CumulativeFrom_Strict(results, k + 1, c, total_votes, t)

\* The inner loop of poll_threshold: the value of the first entry, from the k-th on,
\* at which the running sum reaches total_votes * threshold; None when the loop ends
RECURSIVE CumulativeFrom(_, _, _, _, _)
CumulativeFrom(results, k, cumulative, total_votes, t) ==
    IF k > Len(results) THEN None
    ELSE
        LET c == cumulative + results[k].numvotes IN
        IF c * t.den >= total_votes * t.num THEN Some(results[k].value)
        ELSE CumulativeFrom(results, k + 1, c, total_votes, t)

RECURSIVE PollThresholdFrom(_, _, _, _)
PollThresholdFrom(polls, i, poll_name, t) ==
    IF i > Len(polls) THEN None
    ELSE IF polls[i].name = poll_name /\ polls[i].results # <<>> THEN
        LET results == polls[i].results[1].result
            total_votes == SumVotes(results, Len(results))
            found == IF total_votes > 0
                     THEN CumulativeFrom(results, 1, 0, total_votes, t)
                     ELSE None
        IN  IF found # None THEN found
            ELSE PollThresholdFrom(polls, i + 1, poll_name, t)
    ELSE PollThresholdFrom(polls, i + 1, poll_name, t)

poll_threshold(it, poll_name, t) == PollThresholdFrom(it.polls, 1, poll_name, t)

\* [link['value'] for link ... if link['type'] == 'boardgameexpansion' and inbound]
inbound_links(it) == it.inbound

\* The exception Game(item, threshold) raises, if any, in the order the constructor
\* would meet it: a vote label missing (line 64-66), no inbound link (line 111)
GameRaises(it, t) ==
    IF poll_num_players(it, t).raised THEN Some("KeyError")
    ELSE IF it.type = "boardgameexpansion" /\ inbound_links(it) = <<>>
         THEN Some("IndexError")
    ELSE None

\* Game(item, threshold), for an item it does not raise on
Game(it, t) ==
    LET np == poll_num_players(it, t)
        is_expansion == it.type = "boardgameexpansion"
    IN  [is_expansion |-> is_expansion,
         name |-> it.name,
         players |-> <<it.minplayers, it.maxplayers>>,
         community_players_min |-> np.min,
         community_players_max |-> np.max,
         community_players_best |-> np.best,
         community_playerage |-> poll_threshold(it, "suggested_playerage", t),
         community_language_dependence |-> poll_threshold(it, "language_dependence", t),
         expands_name |-> IF is_expansion THEN Some(inbound_links(it)[1]) ELSE None,
         expansions |-> <<>>]

----------------------------------------------------------------------------
(* Game.good_for_players *)

\* The outcome of good_for_players(player_count): "True", "False", or "ValueError"
\* when one of the int() conversions raises
good_for_players(g, n) ==
    LET min_text == OrElse(g.community_players_min, g.players[1])
        max_players == OrElse(g.community_players_max, g.players[2])
        exclusive == ~EndsWithPlus(max_players)
        max_text == IF exclusive THEN max_players ELSE DropLast(max_players)
    IN  IF IntRaises(min_text) \/ IntRaises(max_text) THEN "ValueError"
        ELSE IF exclusive
             THEN IF IntOf(min_text) <= n /\ n <= IntOf(max_text) THEN "True" ELSE "False"
             ELSE IF IntOf(min_text) <= n THEN "True" ELSE "False"

----------------------------------------------------------------------------
(* BoardGameCollection.fetch *)

\* r.status_code == 202
Processing == 202

\* The statuses upstream answers the collection lookup with
Statuses == {200, Processing, 500}

Names == {"Root", "Leaf"}

\* An <item> as fetch reads it: name, type and the inbound expansion links
FetchItem(n, ty, inb) ==
    [name |-> n, type |-> ty, inbound |-> inb,
     minplayers |-> <<"2">>, maxplayers |-> <<"4">>, polls |-> <<>>]

\* Base games, expansions linked to another fetched name or to a game that is never
\* fetched ("Stem"), and expansions that carry no inbound link
FetchItems ==
    {FetchItem(n, "boardgame", <<>>) : n \in Names}
    \cup UNION {{FetchItem(n, "boardgameexpansion", <<b>>) :
                     b \in (Names \ {n}) \cup {"Stem"}} : n \in Names}
    \cup {FetchItem(n, "boardgameexpansion", <<>>) : n \in Names}

\* The bodies upstream answers the thing request with: up to MaxItems items
Responses == UNION {[1..k -> FetchItems] : k \in 0..MaxItems}

\* Faulty variant of KeepWaiting: the wait loop is missing
KeepWaiting_Never(s) == FALSE

\* while r.status_code == 202
KeepWaiting(s) == s = Processing

\* The keys of {game.name: game for game in [...]} in insertion order: each name at
\* its first occurrence
RECURSIVE KeyOrder(_, _)
KeyOrder(games, n) ==
    IF n = 0 THEN <<>>
    ELSE LET before == KeyOrder(games, n - 1) IN
         IF \E i \in 1..Len(before) : before[i] = games[n].name THEN before
         ELSE Append(before, games[n].name)

\* games_by_name: each name maps to the last game that carries it
GamesByName(games) ==
    [n \in {games[i].name : i \in 1..Len(games)} |->
        CHOOSE i \in 1..Len(games) :
            /\ games[i].name = n
            /\ \A j \in (i + 1)..Len(games) : games[j].name # n]

\* Faulty variant of AssembleStep: the else is missing, a nested expansion is also a key
AssembleStep_AlsoTopLevel(st, by_name, name) ==
    LET g == by_name[name]
        all == Append(st.all_games, g)
    IN  IF st.objs[g].is_expansion /\ st.objs[g].expands_name[1] \in DOMAIN by_name
        THEN [objs |-> [st.objs EXCEPT ![by_name[st.objs[g].expands_name[1]]].expansions
                                           = Append(@, g)],
              games |-> st.games @@ (name :> g),
              all_games |-> all]
        ELSE [objs |-> st.objs,
              games |-> st.games @@ (name :> g),
              all_games |-> all]

\* One iteration of the loop over games_by_name.items()
AssembleStep(st, by_name, name) ==
    LET g == by_name[name]
        all == Append(st.all_games, g)
    IN  IF st.objs[g].is_expansion /\ st.objs[g].expands_name[1] \in DOMAIN by_name
        THEN [objs |-> [st.objs EXCEPT ![by_name[st.objs[g].expands_name[1]]].expansions
                                           = Append(@, g)],
              games |-> st.games,
              all_games |-> all]
        ELSE [objs |-> st.objs,
              games |-> st.games @@ (name :> g),
              all_games |-> all]

RECURSIVE AssembleLoop(_, _, _, _)
AssembleLoop(st, by_name, keys, k) ==
    IF k > Len(keys) THEN st
    ELSE AssembleLoop(AssembleStep(st, by_name, keys[k]), by_name, keys, k + 1)

\* Lines 211-217: the collection built from the parsed items
Assemble(items) ==
    LET games == [i \in 1..Len(items) |-> Game(items[i], DefaultThreshold)]
    IN  AssembleLoop([objs |-> games, games |-> EmptyDict, all_games |-> <<>>],
                     GamesByName(games), KeyOrder(games, Len(games)), 1)

\* fetch is called: both collections are cleared and the collection GET is issued
Fetch ==
    /\ pc = "idle"
    /\ prior' = [objs |-> objs, games |-> _games, all_games |-> _all_games]
    /\ objs' = <<>>
    /\ _games' = EmptyDict
    /\ _all_games' = <<>>
    /\ pc' = "collection"
    /\ outcome' = "none"
    /\ status' = 0
    /\ collection_requests' = 1
    /\ thing_requests' = 0
    /\ UNCHANGED game_vars

\* A collection response arrives: on 202 sleep and ask again, else issue the thing GET
CollectionResponse(s) ==
    /\ pc = "collection"
    /\ status' = s
    /\ IF KeepWaiting(s)
       THEN /\ pc' = "collection"
            /\ collection_requests' = Min(collection_requests + 1, MaxAttempts)
            /\ thing_requests' = thing_requests
       ELSE /\ pc' = "things"
            /\ collection_requests' = collection_requests
            /\ thing_requests' = thing_requests + 1
    /\ UNCHANGED <<outcome, objs, _games, _all_games, prior>>
    /\ UNCHANGED game_vars

\* fetch returns or raises: its locals are gone
Return(how) ==
    /\ pc' = "idle"
    /\ outcome' = how
    /\ status' = 0
    /\ collection_requests' = 0
    /\ thing_requests' = 0

\* requests.get raises (no response at all): the exception leaves fetch
TransportError ==
    /\ pc \in {"collection", "things"}
    /\ Return("error")
    /\ UNCHANGED <<objs, _games, _all_games, prior>>
    /\ UNCHANGED game_vars

\* The thing response arrives: every item is parsed, then the collection is assembled
ThingResponse(items) ==
    /\ pc = "things"
    /\ IF \E i \in 1..Len(items) : GameRaises(items[i], DefaultThreshold) # None
       THEN /\ Return("error")
            /\ UNCHANGED <<objs, _games, _all_games>>
       ELSE LET built == Assemble(items) IN
            /\ Return("ok")
            /\ objs' = built.objs
            /\ _games' = built.games
            /\ _all_games' = built.all_games
    /\ UNCHANGED prior
    /\ UNCHANGED game_vars

\* The single item the filter model starts from when fetch is what is explored
IdleItem == FetchItem("Root", "boardgame", <<>>)

GameIdle ==
    /\ item = IdleItem
    /\ threshold = DefaultThreshold
    /\ game = None
    /\ parse_error = None
    /\ player_count = 0
    /\ result = "NotCalled"

\* BoardGameCollection(): both collections empty, no fetch running
FetchIdle ==
    /\ pc = "idle"
    /\ outcome = "none"
    /\ status = 0
    /\ collection_requests = 0
    /\ thing_requests = 0
    /\ objs = <<>>
    /\ _games = EmptyDict
    /\ _all_games = <<>>
    /\ prior = [objs |-> <<>>, games |-> EmptyDict, all_games |-> <<>>]

Init == FetchIdle /\ GameIdle

Next ==
    \/ Fetch
    \/ \E s \in Statuses : CollectionResponse(s)
    \/ TransportError
    \/ \E items \in Responses : ThingResponse(items)

Spec == Init /\ [][Next]_vars

----------------------------------------------------------------------------
(* One Game built from one item, and good_for_players called on it *)

Tally(b, r, n) ==
    <<[value |-> "Best", numvotes |-> b],
      [value |-> "Recommended", numvotes |-> r],
      [value |-> "Not Recommended", numvotes |-> n]>>

\* The tallies of up to MaxVotes voters
Tallies ==
    UNION {UNION {{Tally(b, r, n) : n \in 0..(MaxVotes - b - r)} :
                      r \in 0..(MaxVotes - b)} : b \in 0..MaxVotes}

\* A <results numplayers=...> group and a <poll name=...>
Group(label, entries) == [numplayers |-> label, result |-> entries]

Poll(poll_name, results) == [name |-> poll_name, results |-> results]

GameItem(minp, maxp, polls) ==
    [name |-> "Root", type |-> "boardgame", inbound |-> <<>>,
     minplayers |-> minp, maxplayers |-> maxp, polls |-> polls]

\* The numplayers text of the i-th of k candidates: "1", "2", ..., the last one
\* either "k" or "k+"
Label(i, k, plus) == IF i = k /\ plus THEN StrOf(i) \o <<"+">> ELSE StrOf(i)

\* An item with one suggested_numplayers poll of k candidates with tallies v
SinglePollItem(k, v, plus) ==
    GameItem(<<"2">>, <<"3">>,
             <<Poll("suggested_numplayers",
                    [i \in 1..k |-> Group(Label(i, k, plus), v[i])])>>)

\* What one poll of an item with several polls holds: no <results> (None), or one
\* <results> group that is recommended and best, not recommended, without any
\* <result>, or with vote labels missing
PollContents ==
    {None, Some(Tally(1, 0, 0)), Some(Tally(0, 0, 1)), Some(<<>>),
     Some(<<[value |-> "Best", numvotes |-> 1]>>)}

\* An item with m suggested_numplayers polls, the p-th with contents c[p] and the
\* candidate "p"
MultiPollItem(m, c) ==
    GameItem(<<"2">>, <<"3">>,
             [p \in 1..m |-> Poll("suggested_numplayers",
                                  IF c[p] = None THEN <<>>
                                  ELSE <<Group(StrOf(p), c[p][1])>>)])

ThresholdPollNames == {"suggested_playerage", "language_dependence"}

\* The value of the i-th option of a threshold poll: "8", "10", "12", ...
OptionValue(i) == StrOf(6 + 2 * i)

\* An item with one threshold poll of k options with nv[i] votes each
ThresholdItem(pn, k, nv) ==
    GameItem(<<"2">>, <<"3">>,
             <<Poll(pn, <<Group(None, [i \in 1..k |->
                          [value |-> OptionValue(i), numvotes |-> nv[i]]])>>)>>)

\* An item with one threshold poll that has no <results>
EmptyPollItem(pn) == GameItem(<<"2">>, <<"3">>, <<Poll(pn, <<>>)>>)

\* An item with no poll at all: the publisher's player counts decide
PublisherItem(a, b) == GameItem(StrOf(a), StrOf(b), <<>>)

NumPlayersThresholds == {[num |-> 1, den |-> 4], DefaultThreshold}

CumulativeThresholds == {[num |-> k, den |-> 4] : k \in 0..5}

PlayerCounts == 0..(MaxPlayerCount + 1)

\* The (item, threshold) pairs Game is built from
InitGame ==
    /\ FetchIdle
    /\ game = None
    /\ parse_error = None
    /\ player_count = 0
    /\ result = "NotCalled"
    /\ \/ /\ \E k \in 1..MaxCandidates : \E v \in [1..k -> Tallies], plus \in BOOLEAN :
                 item = SinglePollItem(k, v, plus)
          /\ threshold = DefaultThreshold
       \/ /\ \E m \in 1..MaxPolls : \E c \in [1..m -> PollContents] :
                 item = MultiPollItem(m, c)
          /\ threshold \in NumPlayersThresholds
       \/ /\ \E pn \in ThresholdPollNames :
                 \/ item = EmptyPollItem(pn)
                 \/ \E k \in 0..MaxEntries : \E nv \in [1..k -> 0..MaxNumVotes] :
                        item = ThresholdItem(pn, k, nv)
          /\ threshold \in CumulativeThresholds
       \/ /\ \E a \in 1..MaxPlayerCount, b \in 1..MaxPlayerCount :
                 item = PublisherItem(a, b)
          /\ threshold = DefaultThreshold

\* Game(item, threshold) is called
Construct ==
    /\ game = None
    /\ parse_error = None
    /\ IF GameRaises(item, threshold) # None
       THEN /\ parse_error' = GameRaises(item, threshold)
            /\ game' = game
       ELSE /\ game' = Some(Game(item, threshold))
            /\ parse_error' = parse_error
    /\ UNCHANGED <<item, threshold, player_count, result>>
    /\ UNCHANGED fetch_vars

\* game.good_for_players(n) is called
CallGoodForPlayers(n) ==
    /\ game # None
    /\ player_count' = n
    /\ result' = good_for_players(game[1], n)
    /\ UNCHANGED <<item, threshold, game, parse_error>>
    /\ UNCHANGED fetch_vars

NextGame ==
    \/ Construct
    \/ \E n \in PlayerCounts : CallGoodForPlayers(n)

SpecGame == InitGame /\ [][NextGame]_vars

----------------------------------------------------------------------------
(* Properties of fetch *)

Completed == pc = "idle" /\ outcome = "ok"

Failed == pc = "idle" /\ outcome = "error"

\* The references held by the name-keyed map
MapValues == {_games[n] : n \in DOMAIN _games}

\* Where reference e occurs in expansions lists: <<holder, position>>
Occurrences(e) ==
    UNION {{<<o, k>> : k \in {j \in 1..Len(objs[o].expansions) :
                                   objs[o].expansions[j] = e}} : o \in 1..Len(objs)}

\* An expansion whose expands_name is the name of no fetched record
IsOrphan(g) ==
    /\ objs[g].is_expansion
    /\ ~\E h \in 1..Len(objs) : objs[h].name = objs[g].expands_name[1]

\* C1: a fetch that fails leaves the map and the flat list exactly as they were
\* when it was called.
C1_FailedFetchKeepsPriorState ==
    Failed => /\ _games = prior.games
              /\ _all_games = prior.all_games
              /\ objs = prior.objs

\* C2: after a fetch an orphan expansion of the flat list is no value of the
\* name-keyed map and in no expansions list, and the map holds no expansion.
C2_OrphanNotInMap ==
    Completed =>
        /\ \A g \in Range(_all_games) :
               IsOrphan(g) => g \notin MapValues /\ Occurrences(g) = {}
        /\ \A g \in MapValues : ~objs[g].is_expansion

\* C3: after a completed fetch an expansion whose expands_name is a key of the map
\* occurs in exactly one expansions list, that of the record under that key, once,
\* and its own name is no key of the map.
C3_ExpansionNestedOnce ==
    Completed =>
        \A e \in Range(_all_games) :
            (objs[e].is_expansion /\ objs[e].expands_name[1] \in DOMAIN _games) =>
                /\ Cardinality(Occurrences(e)) = 1
                /\ \E k \in 1..Len(objs[_games[objs[e].expands_name[1]]].expansions) :
                       Occurrences(e) = {<<_games[objs[e].expands_name[1]], k>>}
                /\ objs[e].name \notin DOMAIN _games

\* C3's case: a completed fetch holding an expansion whose base is a key of the map
C3_Witness ==
    /\ Completed
    /\ \E e \in Range(_all_games) :
           objs[e].is_expansion /\ objs[e].expands_name[1] \in DOMAIN _games

\* C4: a collection status that is neither success nor 202 is fatal: no thing
\* request is issued for it.
C4_ErrorStatusIsFatal ==
    status \notin {0, 200, Processing} => pc # "things" /\ thing_requests = 0

\* C5: while the latest collection status is 202 the lookup is issued again, with
\* no limit on the attempts; the thing request is issued once, at a collection
\* response that is not 202, and a fetch that completes has issued exactly one.
C5_RetryWhileProcessing ==
    /\ [][/\ (pc = "collection" /\ status' = Processing) =>
                 /\ pc' = "collection"
                 /\ thing_requests' = 0
                 /\ collection_requests' = Min(collection_requests + 1, MaxAttempts)
          /\ (pc = "collection" /\ status' \in Statuses \ {Processing}) =>
                 /\ pc' = "things"
                 /\ thing_requests' = 1
          /\ (thing_requests' > thing_requests) =>
                 /\ pc = "collection"
                 /\ status' \in Statuses \ {Processing}
                 /\ thing_requests = 0
          /\ (pc = "collection" /\ pc' = "things") => status' # Processing
          /\ outcome' = "ok" => pc = "things" /\ thing_requests = 1]_vars
    /\ [](pc = "collection" => ENABLED CollectionResponse(Processing))

\* C5's case: the lookup was issued MaxAttempts times or more before the thing request
C5_Witness == pc = "things" /\ collection_requests = MaxAttempts /\ thing_requests = 1

----------------------------------------------------------------------------
(* Properties of the poll aggregation and of good_for_players *)

\* The votes a group gives to a label (0 when the group has no such <result>)
VotesFor(group, label) ==
    IF \E i \in 1..Len(group.result) : group.result[i].value = label
    THEN group.result[CHOOSE i \in 1..Len(group.result) :
                          group.result[i].value = label].numvotes
    ELSE 0

TotalOf(group) ==
    VotesFor(group, "Best") + VotesFor(group, "Recommended")
        + VotesFor(group, "Not Recommended")

YesOf(group) == VotesFor(group, "Best") + VotesFor(group, "Recommended")

\* The item holds exactly one poll, a suggested_numplayers poll
SingleNumPlayersPoll ==
    Len(item.polls) = 1 /\ item.polls[1].name = "suggested_numplayers"

\* The candidates of that poll that count: those with total > 0
Counted == {i \in 1..Len(item.polls[1].results) : TotalOf(item.polls[1].results[i]) > 0}

\* The candidates the claim calls recommended: (Best + Recommended) / total > t
RecommendedSet ==
    {i \in Counted : YesOf(item.polls[1].results[i]) * threshold.den
                         > threshold.num * TotalOf(item.polls[1].results[i])}

\* Best/total of candidate i is at least that of candidate j
RatioAtLeast(i, j) ==
    VotesFor(item.polls[1].results[i], "Best") * TotalOf(item.polls[1].results[j])
        >= VotesFor(item.polls[1].results[j], "Best") * TotalOf(item.polls[1].results[i])

\* The earliest counted candidate with the highest Best/total ratio
TopCandidate ==
    CHOOSE i \in Counted :
        /\ \A j \in Counted : RatioAtLeast(i, j)
        /\ \A j \in Counted : (j < i) => ~RatioAtLeast(j, i)

SetMin(S) == CHOOSE x \in S : \A y \in S : x <= y

SetMax(S) == CHOOSE x \in S : \A y \in S : x >= y

LabelOf(i) == item.polls[1].results[i].numplayers

PlayersOf(g) == <<g.community_players_min, g.community_players_max, g.community_players_best>>

\* C6 as stated: (first recommended, last recommended, best) with best the earliest
\* candidate of the highest Best/total ratio among those with total > 0; all null
\* when nothing is recommended.
C6_BestIsTopCandidate ==
    (game # None /\ SingleNumPlayersPoll) =>
        PlayersOf(game[1]) =
            IF RecommendedSet = {} THEN <<None, None, None>>
            ELSE <<Some(LabelOf(SetMin(RecommendedSet))),
                   Some(LabelOf(SetMax(RecommendedSet))),
                   Some(LabelOf(TopCandidate))>>

\* C6 amended: as C6, but best is null when no counted candidate has a Best vote
\* (the highest ratio is 0), and the earliest top candidate otherwise.
C6_BestIsTopCandidateWithVotes ==
    (game # None /\ SingleNumPlayersPoll) =>
        PlayersOf(game[1]) =
            IF RecommendedSet = {} THEN <<None, None, None>>
            ELSE <<Some(LabelOf(SetMin(RecommendedSet))),
                   Some(LabelOf(SetMax(RecommendedSet))),
                   IF VotesFor(item.polls[1].results[TopCandidate], "Best") > 0
                   THEN Some(LabelOf(TopCandidate))
                   ELSE None>>

\* C6's case: several candidates recommended, two of them tied for the best ratio
C6_Witness ==
    /\ game # None
    /\ SingleNumPlayersPoll
    /\ Cardinality(RecommendedSet) > 1
    /\ \E i \in Counted : i # TopCandidate /\ RatioAtLeast(i, TopCandidate)
    /\ game[1].community_players_best = Some(LabelOf(TopCandidate))

\* The first suggested_numplayers poll that has <results>, as a sequence of 0 or 1
FirstPollWithResults ==
    LET with == {p \in 1..Len(item.polls) :
                     item.polls[p].name = "suggested_numplayers"
                     /\ item.polls[p].results # <<>>}
    IN  IF with = {} THEN <<>> ELSE <<item.polls[SetMin(with)]>>

\* C7: the player counts are those of the first suggested_numplayers poll that has
\* results, taken alone; later polls of that name never change them.
C7_OnlyFirstPollCounts ==
    game # None =>
        LET alone == poll_num_players([item EXCEPT !.polls = FirstPollWithResults],
                                      threshold)
        IN  PlayersOf(game[1]) = <<alone.min, alone.max, alone.best>>

\* The item holds exactly one poll, a threshold poll with one <results> group
SingleThresholdPoll ==
    /\ Len(item.polls) = 1
    /\ item.polls[1].name \in ThresholdPollNames
    /\ item.polls[1].results # <<>>

ThresholdEntries == item.polls[1].results[1].result

RECURSIVE PrefixVotes(_, _)
PrefixVotes(entries, k) ==
    IF k = 0 THEN 0 ELSE PrefixVotes(entries, k - 1) + entries[k].numvotes

\* The entries at which the running sum has reached t times the total
Reached(entries, t) ==
    {k \in 1..Len(entries) :
        PrefixVotes(entries, k) * t.den >= t.num * PrefixVotes(entries, Len(entries))}

\* What the claim says the cumulative threshold value is
CumulativeValue(entries, t) ==
    IF PrefixVotes(entries, Len(entries)) = 0 \/ Reached(entries, t) = {} THEN None
    ELSE Some(entries[SetMin(Reached(entries, t))].value)

\* The field of the Game the poll named pn fills
ThresholdField(g, pn) ==
    IF pn = "suggested_playerage" THEN g.community_playerage
    ELSE g.community_language_dependence

\* The spec's example: [(8, 10), (10, 10), (12+, 80)]
ExampleEntries ==
    <<[value |-> <<"8">>, numvotes |-> 10],
      [value |-> <<"1", "0">>, numvotes |-> 10],
      [value |-> <<"1", "2", "+">>, numvotes |-> 80]>>

ExampleItem ==
    GameItem(<<"2">>, <<"3">>, <<Poll("suggested_playerage", <<Group(None, ExampleEntries)>>)>>)

\* C8: the cumulative threshold value is null when the votes sum to zero, else the
\* value of the first entry at which the running sum reaches t times the total; it
\* is never null when 0 <= t <= 1 and the total is positive; the example gives "12+".
C8_CumulativeThreshold ==
    /\ (game # None /\ SingleThresholdPoll) =>
           /\ ThresholdField(game[1], item.polls[1].name)
                  = CumulativeValue(ThresholdEntries, threshold)
           /\ (PrefixVotes(ThresholdEntries, Len(ThresholdEntries)) = 0) =>
                  ThresholdField(game[1], item.polls[1].name) = None
           /\ (/\ PrefixVotes(ThresholdEntries, Len(ThresholdEntries)) > 0
               /\ 0 <= threshold.num
               /\ threshold.num <= threshold.den) =>
                  ThresholdField(game[1], item.polls[1].name) # None
    /\ poll_threshold(ExampleItem, "suggested_playerage", DefaultThreshold)
           = Some(<<"1", "2", "+">>)

\* C8's case: a poll of three entries whose running sum reaches the threshold at
\* the second one, exactly
C8_Witness ==
    /\ game # None
    /\ SingleThresholdPoll
    /\ Len(ThresholdEntries) = 3
    /\ threshold.num > 0
    /\ PrefixVotes(ThresholdEntries, 1) > 0
    /\ PrefixVotes(ThresholdEntries, 2) * threshold.den
           = threshold.num * PrefixVotes(ThresholdEntries, 3)
    /\ ThresholdField(game[1], item.polls[1].name) = Some(ThresholdEntries[2].value)

\* The bound a player-count text denotes: "7" and "7+" both denote 7
BoundOf(label) == IntOf(IF EndsWithPlus(label) THEN DropLast(label) ELSE label)

BoolText(b) == IF b THEN "True" ELSE "False"

\* C9: good_for_players(N) is true exactly when min <= N, and N <= max unless the
\* maximum carries "+", with the community bounds if present, else the publisher's.
C9_SuitableRange ==
    result # "NotCalled" =>
        LET min_players == BoundOf(OrElse(game[1].community_players_min, game[1].players[1]))
            max_players == OrElse(game[1].community_players_max, game[1].players[2])
        IN  result = IF EndsWithPlus(max_players)
                     THEN BoolText(min_players <= player_count)
                     ELSE BoolText(min_players <= player_count
                                   /\ player_count <= BoundOf(max_players))

\* C10: good_for_players returns a boolean for every Game and never raises.
C10_NeverRaises == result \in {"NotCalled", "True", "False"}

====
